---- MODULE Spec2Model ----
(***************************************************************************)
(* Model of packages/common/src/actions/account.ts: the instruction        *)
(* builders that append to caller-supplied instructions / cleanup /        *)
(* signers lists, the borsh SCHEMA with its encode and decode, and the     *)
(* account resolution helper findOrCreateAccountByMint.                    *)
(***************************************************************************)
EXTENDS Integers, Sequences, FiniteSets, TLC

VARIABLES
  instructions,        \* TransactionInstruction[] supplied by the caller
  cleanupInstructions, \* TransactionInstruction[] supplied by the caller
  signers,             \* Account[] supplied by the caller
  nAccounts,           \* how many `new Account()` key pairs were generated
  cache,               \* the account cache, in its enumeration order
  last,                \* the last call: operation, arguments, result, the lists before it
  codec                \* the encode/decode pipeline: record, buffer, decode result

vars == <<instructions, cleanupInstructions, signers, nAccounts, cache, last, codec>>

(***************************************************************************)
(* Bounds of the model.                                                    *)
(***************************************************************************)
MaxCalls == 3          \* calls in one behaviour of Spec
MaxMetaCalls == 2      \* calls in one behaviour of MetaSpec
MaxResolveCalls == 2   \* calls in one behaviour of ResolveSpec
MaxCache == 2          \* entries of the account cache

(***************************************************************************)
(* Public keys.  A key is a pair <<kind, n>>; a program-derived address is *)
(* <<"pda", the concatenated seed bytes, program id>>.                     *)
(***************************************************************************)
TOKEN_PROGRAM_ID == <<"TokenProgram", 0>>
WRAPPED_SOL_MINT == <<"WrappedSolMint", 0>>
SPL_ASSOCIATED_TOKEN_ACCOUNT_PROGRAM_ID == <<"AssociatedTokenProgram", 0>>
SystemProgramId == <<"SystemProgram", 0>>
SYSVAR_RENT_PUBKEY == <<"SysvarRent", 0>>
MetadataProgramId == <<"MetadataProgram", 0>>
NoKey == <<"none", 0>>

Wallet(n) == <<"Wallet", n>>
Mint(n) == <<"Mint", n>>
Cached(n) == <<"Cached", n>>

MAX_NAME_LENGTH == 32
MAX_SYMBOL_LENGTH == 10
MAX_URI_LENGTH == 200
DEFAULT_TEMP_MEM_SPACE == 65548
MintLayoutSpan == 82
AccountLayoutSpan == 165
MAX_SEED_LENGTH == 32

(***************************************************************************)
(* Sequence helpers.                                                       *)
(***************************************************************************)
IsPrefix(s, t) == Len(s) <= Len(t) /\ SubSeq(t, 1, Len(s)) = s

Suffix(t, n) == SubSeq(t, n + 1, Len(t))

RECURSIVE Concat(_)
Concat(ss) == IF ss = <<>> THEN <<>> ELSE Head(ss) \o Concat(Tail(ss))

Repeat(b, n) == [i \in 1..n |-> b]

(***************************************************************************)
(* JavaScript strings are sequences of code points; Buffer.from(str) and   *)
(* borsh's writeString produce their UTF-8 bytes.                          *)
(***************************************************************************)
Utf8Char(c) ==
  IF c < 128 THEN <<c>>
  ELSE IF c < 2048 THEN <<192 + (c \div 64), 128 + (c % 64)>>
  ELSE IF c < 65536 THEN <<224 + (c \div 4096), 128 + ((c \div 64) % 64), 128 + (c % 64)>>
  ELSE <<240 + (c \div 262144), 128 + ((c \div 4096) % 64),
         128 + ((c \div 64) % 64), 128 + (c % 64)>>

RECURSIVE Utf8(_)
Utf8(str) ==
  IF Len(str) = 0 THEN <<>>
  ELSE IF Len(str) = 1 THEN Utf8Char(str[1])
  ELSE LET h == Len(str) \div 2
       IN Utf8(SubSeq(str, 1, h)) \o Utf8(SubSeq(str, h + 1, Len(str)))

StrMetadata == <<109, 101, 116, 97, 100, 97, 116, 97>>      \* "metadata"
StrFoo == <<70, 111, 111>>                                  \* "Foo"
StrFOO == <<70, 79, 79>>                                    \* "FOO"
StrHttpX == <<104, 116, 116, 112, 58, 47, 47, 120>>         \* "http://x"
StrEAcute == <<233>>                                        \* one two-byte character
StrEuro == <<8364, 49>>                                     \* a three-byte character and "1"

(***************************************************************************)
(* Instruction descriptors and the library constructors the builders call. *)
(***************************************************************************)
AccountMeta(pubkey, isSigner, isWritable) ==
  [pubkey |-> pubkey, isSigner |-> isSigner, isWritable |-> isWritable]

TransactionInstruction(keys, programId, data) ==
  [keys |-> keys, programId |-> programId, data |-> data]

SystemProgramCreateAccount(fromPubkey, newAccountPubkey, lamports, space, programId) ==
  TransactionInstruction(
    <<AccountMeta(fromPubkey, TRUE, TRUE), AccountMeta(newAccountPubkey, TRUE, TRUE)>>,
    SystemProgramId,
    [instruction |-> "Create", lamports |-> lamports, space |-> space,
     programId |-> programId])

createInitMintInstruction(programId, mint, decimals, mintAuthority, freezeAuthority) ==
  TransactionInstruction(
    <<AccountMeta(mint, FALSE, TRUE), AccountMeta(SYSVAR_RENT_PUBKEY, FALSE, FALSE)>>,
    programId,
    [instruction |-> "InitializeMint", decimals |-> decimals,
     mintAuthority |-> mintAuthority, freezeAuthority |-> freezeAuthority])

createInitAccountInstruction(programId, mint, account, owner) ==
  TransactionInstruction(
    <<AccountMeta(account, FALSE, TRUE), AccountMeta(mint, FALSE, FALSE),
      AccountMeta(owner, FALSE, FALSE), AccountMeta(SYSVAR_RENT_PUBKEY, FALSE, FALSE)>>,
    programId,
    [instruction |-> "InitializeAccount"])

createCloseAccountInstruction(programId, account, dest, owner, multiSigners) ==
  TransactionInstruction(
    <<AccountMeta(account, FALSE, TRUE), AccountMeta(dest, FALSE, TRUE),
      AccountMeta(owner, multiSigners = <<>>, FALSE)>>
      \o [i \in 1..Len(multiSigners) |-> AccountMeta(multiSigners[i].publicKey, TRUE, FALSE)],
    programId,
    [instruction |-> "CloseAccount"])

(***************************************************************************)
(* The caller-supplied lists travel together as a world w; every builder   *)
(* maps a world to [w |-> the world after the call, ret |-> its result].   *)
(***************************************************************************)
World == [instructions |-> instructions, cleanupInstructions |-> cleanupInstructions,
          signers |-> signers, nAccounts |-> nAccounts]

\* new Account(): a fresh key pair, distinct from every key generated before
NewAccount(w) == [publicKey |-> <<"Account", w.nAccounts + 1>>]

createUninitializedAccount_Prepend(w, payer, amount) ==
  LET account == NewAccount(w)
  IN [w |-> [w EXCEPT
               !.nAccounts = @ + 1,
               !.instructions = <<SystemProgramCreateAccount(
                   payer, account.publicKey, amount, AccountLayoutSpan, TOKEN_PROGRAM_ID)>> \o @,
               !.signers = Append(@, account)],
      ret |-> account.publicKey]

createUninitializedAccount(w, payer, amount) ==
  LET account == NewAccount(w)
  IN [w |-> [w EXCEPT
               !.nAccounts = @ + 1,
               !.instructions = Append(@, SystemProgramCreateAccount(
                   payer, account.publicKey, amount, AccountLayoutSpan, TOKEN_PROGRAM_ID)),
               !.signers = Append(@, account)],
      ret |-> account.publicKey]

ensureSplAccount(w, toCheck, payer, amount) ==
  IF ~toCheck.info.isNative
  THEN [w |-> w, ret |-> toCheck.pubkey]
  ELSE LET r == createUninitializedAccount(w, payer, amount)
           account == r.ret
       IN [w |-> [r.w EXCEPT
                    !.instructions = Append(@, createInitAccountInstruction(
                        TOKEN_PROGRAM_ID, WRAPPED_SOL_MINT, account, payer)),
                    !.cleanupInstructions = Append(@, createCloseAccountInstruction(
                        TOKEN_PROGRAM_ID, account, payer, payer, <<>>))],
           ret |-> account]

createTempMemoryAccount(w, payer, owner, space) ==
  LET account == NewAccount(w)
  IN [w |-> [w EXCEPT
               !.nAccounts = @ + 1,
               !.instructions = Append(@, SystemProgramCreateAccount(
                   payer, account.publicKey, 0, space, owner)),
               !.signers = Append(@, account)],
      ret |-> account.publicKey]

createUninitializedMint(w, payer, amount) ==
  LET account == NewAccount(w)
  IN [w |-> [w EXCEPT
               !.nAccounts = @ + 1,
               !.instructions = Append(@, SystemProgramCreateAccount(
                   payer, account.publicKey, amount, MintLayoutSpan, TOKEN_PROGRAM_ID)),
               !.signers = Append(@, account)],
      ret |-> account.publicKey]

createAssociatedTokenAccountInstruction(w, associatedTokenAddress, payer, walletAddress, splTokenMintAddress) ==
  LET keys == <<AccountMeta(payer, TRUE, TRUE),
                AccountMeta(associatedTokenAddress, FALSE, TRUE),
                AccountMeta(walletAddress, FALSE, FALSE),
                AccountMeta(splTokenMintAddress, FALSE, FALSE),
                AccountMeta(SystemProgramId, FALSE, FALSE),
                AccountMeta(TOKEN_PROGRAM_ID, FALSE, FALSE),
                AccountMeta(SYSVAR_RENT_PUBKEY, FALSE, FALSE)>>
  IN [w |-> [w EXCEPT !.instructions = Append(@, TransactionInstruction(
                 keys, SPL_ASSOCIATED_TOKEN_ACCOUNT_PROGRAM_ID, <<>>))],
      ret |-> NoKey]

createMint_ReturnsOwner(w, payer, mintRentExempt, decimals, owner, freezeAuthority) ==
  LET r == createUninitializedMint(w, payer, mintRentExempt)
      account == r.ret
  IN [w |-> [r.w EXCEPT !.instructions = Append(@, createInitMintInstruction(
                 TOKEN_PROGRAM_ID, account, decimals, owner, freezeAuthority))],
      ret |-> owner]

createMint(w, payer, mintRentExempt, decimals, owner, freezeAuthority) ==
  LET r == createUninitializedMint(w, payer, mintRentExempt)
      account == r.ret
  IN [w |-> [r.w EXCEPT !.instructions = Append(@, createInitMintInstruction(
                 TOKEN_PROGRAM_ID, account, decimals, owner, freezeAuthority))],
      ret |-> account]

createTokenAccount(w, payer, accountRentExempt, mint, owner) ==
  LET r == createUninitializedAccount(w, payer, accountRentExempt)
      account == r.ret
  IN [w |-> [r.w EXCEPT !.instructions = Append(@, createInitAccountInstruction(
                 TOKEN_PROGRAM_ID, mint, account, owner))],
      ret |-> account]

(***************************************************************************)
(* Values of record fields.  A u8 field holds a JavaScript number or       *)
(* boolean, an absent optional field is undefined; strings are sequences   *)
(* of code points and byte arrays are sequences of bytes.                  *)
(***************************************************************************)
JSNum(n) == [t |-> "number", v |-> n]
JSBool(b) == [t |-> "boolean", v |-> b]
Undefined == [t |-> "undefined"]

\* obj[name] of JavaScript: undefined when the object has no such property
Get(obj, name) == IF name \in DOMAIN obj THEN obj[name] ELSE Undefined

\* new PublicKey(buffer), and its toBuffer()
PublicKeyFromBuffer(buffer) == [t |-> "PublicKey", bytes |-> buffer]

CreateMetadataArgs(args) ==
  [instruction |-> JSNum(0), allow_duplicates |-> JSBool(FALSE),
   name |-> args.name, symbol |-> args.symbol, uri |-> args.uri]

UpdateMetadataArgs(args) ==
  [instruction |-> JSNum(1), uri |-> args.uri,
   non_unique_specific_update_authority |-> JSNum(0)]

\* constructor of class Metadata: the properties it assigns, and no other
MetadataClass(args) ==
  [updateAuthority |-> IF Get(args, "updateAuthority").t = "undefined"
                       THEN Undefined
                       ELSE PublicKeyFromBuffer(args.updateAuthority.bytes),
   mint |-> PublicKeyFromBuffer(args.mint),
   name |-> args.name, symbol |-> args.symbol, uri |-> args.uri]

NameSymbolTuple(args) ==
  [updateAuthority |-> PublicKeyFromBuffer(args.updateAuthority),
   metadata |-> PublicKeyFromBuffer(args.metadata)]

(***************************************************************************)
(* SCHEMA: for each class the ordered <<field name, wire type>> list.      *)
(***************************************************************************)
TU8 == [kind |-> "u8"]
TString == [kind |-> "string"]
TArray(n) == [kind |-> "array", len |-> n]
TOption(type) == [kind |-> "option", type |-> type]

SCHEMA_SymbolBeforeName(class) ==
  CASE class = "CreateMetadataArgs" ->
         << <<"instruction", TU8>>, <<"allow_duplicates", TU8>>, <<"symbol", TString>>,
            <<"name", TString>>, <<"uri", TString>> >>
    [] class = "UpdateMetadataArgs" ->
         << <<"instruction", TU8>>, <<"uri", TString>>,
            <<"non_unique_specific_update_authority", TU8>> >>
    [] class = "Metadata" ->
         << <<"allow_duplicates", TOption(TU8)>>, <<"mint", TArray(32)>>,
            <<"name", TString>>, <<"symbol", TString>>, <<"uri", TString>> >>
    [] class = "NameSymbolTuple" ->
         << <<"update_authority", TArray(32)>>, <<"metadata", TArray(32)>> >>

SCHEMA(class) ==
  CASE class = "CreateMetadataArgs" ->
         << <<"instruction", TU8>>, <<"allow_duplicates", TU8>>, <<"name", TString>>,
            <<"symbol", TString>>, <<"uri", TString>> >>
    [] class = "UpdateMetadataArgs" ->
         << <<"instruction", TU8>>, <<"uri", TString>>,
            <<"non_unique_specific_update_authority", TU8>> >>
    [] class = "Metadata" ->
         << <<"allow_duplicates", TOption(TU8)>>, <<"mint", TArray(32)>>,
            <<"name", TString>>, <<"symbol", TString>>, <<"uri", TString>> >>
    [] class = "NameSymbolTuple" ->
         << <<"update_authority", TArray(32)>>, <<"metadata", TArray(32)>> >>

(***************************************************************************)
(* borsh serialize(SCHEMA, value): the fields in declared order.           *)
(***************************************************************************)
U32LE(n) == <<n % 256, (n \div 256) % 256, (n \div 65536) % 256, (n \div 16777216) % 256>>

writeU8(v) == <<IF v.t = "boolean" THEN (IF v.v THEN 1 ELSE 0) ELSE v.v % 256>>

writeString(str) == LET b == Utf8(str) IN U32LE(Len(b)) \o b

RECURSIVE serializeField(_, _)
serializeField(value, fieldType) ==
  CASE fieldType.kind = "u8" -> [ok |-> TRUE, bytes |-> writeU8(value)]
    [] fieldType.kind = "string" -> [ok |-> TRUE, bytes |-> writeString(value)]
    [] fieldType.kind = "array" ->
         IF Len(value) # fieldType.len
         THEN [ok |-> FALSE, bytes |-> <<>>]
         ELSE [ok |-> TRUE, bytes |-> value]
    [] fieldType.kind = "option" ->
         IF value.t = "undefined"
         THEN [ok |-> TRUE, bytes |-> <<0>>]
         ELSE LET inner == serializeField(value, fieldType.type)
              IN [ok |-> inner.ok, bytes |-> <<1>> \o inner.bytes]

RECURSIVE serializeFields(_, _)
serializeFields(obj, fields) ==
  IF fields = <<>> THEN [ok |-> TRUE, bytes |-> <<>>]
  ELSE LET f == serializeField(Get(obj, Head(fields)[1]), Head(fields)[2])
           rest == serializeFields(obj, Tail(fields))
       IN [ok |-> f.ok /\ rest.ok, bytes |-> f.bytes \o rest.bytes]

serialize(class, obj) == serializeFields(obj, SCHEMA(class))

(***************************************************************************)
(* deserializeBorsh(SCHEMA, class, buffer): a cursor moves left to right   *)
(* over the buffer, one declared field after the other; bytes left over    *)
(* after the last field are ignored; a field that needs more bytes than    *)
(* remain is a MalformedInput error.                                       *)
(***************************************************************************)
IsCont(b) == b >= 128 /\ b < 192

\* strict UTF-8 decoding of a whole byte sequence
RECURSIVE Utf8Decode(_)
Utf8Decode(b) ==
  IF b = <<>> THEN [ok |-> TRUE, str |-> <<>>]
  ELSE LET b1 == b[1]
           n == IF b1 < 128 THEN 1
                ELSE IF b1 >= 194 /\ b1 < 224 THEN 2
                ELSE IF b1 >= 224 /\ b1 < 240 THEN 3
                ELSE IF b1 >= 240 /\ b1 < 245 THEN 4
                ELSE 0
       IN IF n = 0 \/ Len(b) < n \/ \E i \in 2..n : ~IsCont(b[i])
          THEN [ok |-> FALSE, str |-> <<>>]
          ELSE LET c == CASE n = 1 -> b1
                          [] n = 2 -> (b1 - 192) * 64 + (b[2] - 128)
                          [] n = 3 -> (b1 - 224) * 4096 + (b[2] - 128) * 64 + (b[3] - 128)
                          [] n = 4 -> (b1 - 240) * 262144 + (b[2] - 128) * 4096
                                      + (b[3] - 128) * 64 + (b[4] - 128)
                   valid == CASE n = 1 -> TRUE
                              [] n = 2 -> TRUE
                              [] n = 3 -> c >= 2048 /\ ~(c >= 55296 /\ c < 57344)
                              [] n = 4 -> c >= 65536 /\ c < 1114112
                   rest == Utf8Decode(SubSeq(b, n + 1, Len(b)))
               IN IF ~valid \/ ~rest.ok
                  THEN [ok |-> FALSE, str |-> <<>>]
                  ELSE [ok |-> TRUE, str |-> <<c>> \o rest.str]

ReadFail(offset) == [ok |-> FALSE, value |-> Undefined, offset |-> offset]

readU8(buf, offset) ==
  IF offset + 1 > Len(buf) THEN ReadFail(offset)
  ELSE [ok |-> TRUE, value |-> JSNum(buf[offset + 1]), offset |-> offset + 1]

readU32(buf, offset) ==
  IF offset + 4 > Len(buf) THEN ReadFail(offset)
  ELSE [ok |-> TRUE,
        value |-> buf[offset + 1] + 256 * buf[offset + 2] + 65536 * buf[offset + 3]
                  + 16777216 * buf[offset + 4],
        offset |-> offset + 4]

readFixedArray(buf, offset, len) ==
  IF offset + len > Len(buf) THEN ReadFail(offset)
  ELSE [ok |-> TRUE, value |-> SubSeq(buf, offset + 1, offset + len), offset |-> offset + len]

readString(buf, offset) ==
  LET len == readU32(buf, offset)
  IN IF ~len.ok THEN ReadFail(offset)
     ELSE LET raw == readFixedArray(buf, len.offset, len.value)
          IN IF ~raw.ok THEN ReadFail(offset)
             ELSE LET str == Utf8Decode(raw.value)
                  IN IF ~str.ok THEN ReadFail(offset)
                     ELSE [ok |-> TRUE, value |-> str.str, offset |-> raw.offset]

RECURSIVE deserializeField(_, _, _)
deserializeField(buf, offset, fieldType) ==
  CASE fieldType.kind = "u8" -> readU8(buf, offset)
    [] fieldType.kind = "string" -> readString(buf, offset)
    [] fieldType.kind = "array" -> readFixedArray(buf, offset, fieldType.len)
    [] fieldType.kind = "option" ->
         LET option == readU8(buf, offset)
         IN IF ~option.ok THEN ReadFail(offset)
            ELSE IF option.value.v # 0
                 THEN deserializeField(buf, option.offset, fieldType.type)
                 ELSE [ok |-> TRUE, value |-> Undefined, offset |-> option.offset]

\* the values of `fields`, read one after the other from `offset` on
RECURSIVE deserializeFields(_, _, _)
deserializeFields(buf, offset, fields) ==
  IF fields = <<>> THEN [ok |-> TRUE, values |-> <<>>]
  ELSE LET f == deserializeField(buf, offset, Head(fields)[2])
       IN IF ~f.ok THEN [ok |-> FALSE, values |-> <<>>]
          ELSE LET rest == deserializeFields(buf, f.offset, Tail(fields))
               IN [ok |-> rest.ok, values |-> <<f.value>> \o rest.values]

\* new classType(result)
Construct(class, result) ==
  CASE class = "Metadata" -> MetadataClass(result)
    [] class = "NameSymbolTuple" ->
         NameSymbolTuple([updateAuthority |-> Get(result, "updateAuthority"),
                          metadata |-> result.metadata])
    [] class = "CreateMetadataArgs" -> CreateMetadataArgs(result)
    [] class = "UpdateMetadataArgs" -> UpdateMetadataArgs(result)

deserializeBorsh(class, buffer) ==
  LET fields == SCHEMA(class)
      r == deserializeFields(buffer, 0, fields)
      result == [name \in {fields[i][1] : i \in 1..Len(fields)} |->
                   r.values[CHOOSE i \in 1..Len(fields) : fields[i][1] = name]]
  IN IF ~r.ok
     THEN [error |-> "MalformedInput", value |-> Undefined]
     ELSE [error |-> "none", value |-> Construct(class, result)]

decodeMetadata_WrongClass(buffer) == deserializeBorsh("UpdateMetadataArgs", buffer)

decodeMetadata(buffer) == deserializeBorsh("Metadata", buffer)

(***************************************************************************)
(* PublicKey.findProgramAddress(seeds, programId): the address is a hash   *)
(* of the concatenated seed bytes and the program id; a seed longer than   *)
(* MAX_SEED_LENGTH bytes makes the derivation throw.                       *)
(***************************************************************************)
BufferFrom(str) == [kind |-> "bytes", bytes |-> Utf8(str)]

toBuffer(pubkey) == [kind |-> "pubkey", key |-> pubkey]

SeedLength(seed) == IF seed.kind = "pubkey" THEN 32 ELSE Len(seed.bytes)

SeedItems(seed) ==
  IF seed.kind = "pubkey" THEN << <<"key32", seed.key>> >>
  ELSE [i \in 1..Len(seed.bytes) |-> <<"byte", seed.bytes[i]>>]

findProgramAddress(seeds, programId) ==
  IF \E i \in 1..Len(seeds) : SeedLength(seeds[i]) > MAX_SEED_LENGTH
  THEN [ok |-> FALSE, address |-> NoKey]
  ELSE [ok |-> TRUE,
        address |-> <<"pda", Concat([i \in 1..Len(seeds) |-> SeedItems(seeds[i])]), programId>>]

programIds == [metadata |-> MetadataProgramId, token |-> TOKEN_PROGRAM_ID]

updateMetadata_SwapsNameSymbol(w, symbol, name, uri, mintKey, updateAuthority) ==
  LET metadataProgramId == programIds.metadata
      metadataAccount == findProgramAddress(
        <<BufferFrom(StrMetadata), toBuffer(metadataProgramId), toBuffer(mintKey)>>,
        metadataProgramId)
      metadataOwnerAccount == findProgramAddress(
        <<BufferFrom(StrMetadata), toBuffer(metadataProgramId),
          BufferFrom(symbol), BufferFrom(name)>>,
        metadataProgramId)
      value == UpdateMetadataArgs([uri |-> uri])
      data == serialize("UpdateMetadataArgs", value)
      keys == <<AccountMeta(metadataAccount.address, FALSE, TRUE),
                AccountMeta(updateAuthority, TRUE, FALSE),
                AccountMeta(metadataOwnerAccount.address, FALSE, FALSE)>>
  IN IF ~metadataAccount.ok \/ ~metadataOwnerAccount.ok \/ ~data.ok
     THEN [w |-> w, ok |-> FALSE, ret |-> NoKey]
     ELSE [w |-> [w EXCEPT !.instructions = Append(@, TransactionInstruction(
                      keys, metadataProgramId, data.bytes))],
           ok |-> TRUE, ret |-> NoKey]

updateMetadata(w, symbol, name, uri, mintKey, updateAuthority) ==
  LET metadataProgramId == programIds.metadata
      metadataAccount == findProgramAddress(
        <<BufferFrom(StrMetadata), toBuffer(metadataProgramId), toBuffer(mintKey)>>,
        metadataProgramId)
      metadataOwnerAccount == findProgramAddress(
        <<BufferFrom(StrMetadata), toBuffer(metadataProgramId),
          BufferFrom(name), BufferFrom(symbol)>>,
        metadataProgramId)
      value == UpdateMetadataArgs([uri |-> uri])
      data == serialize("UpdateMetadataArgs", value)
      keys == <<AccountMeta(metadataAccount.address, FALSE, TRUE),
                AccountMeta(updateAuthority, TRUE, FALSE),
                AccountMeta(metadataOwnerAccount.address, FALSE, FALSE)>>
  IN IF ~metadataAccount.ok \/ ~metadataOwnerAccount.ok \/ ~data.ok
     THEN [w |-> w, ok |-> FALSE, ret |-> NoKey]
     ELSE [w |-> [w EXCEPT !.instructions = Append(@, TransactionInstruction(
                      keys, metadataProgramId, data.bytes))],
           ok |-> TRUE, ret |-> NoKey]

createMetadata_MetadataFirst(w, symbol, name, uri, mintKey, mintAuthorityKey, payer, updateAuthority) ==
  LET metadataProgramId == programIds.metadata
      metadataAccount == findProgramAddress(
        <<BufferFrom(StrMetadata), toBuffer(metadataProgramId), toBuffer(mintKey)>>,
        metadataProgramId)
      metadataOwnerAccount == findProgramAddress(
        <<BufferFrom(StrMetadata), toBuffer(metadataProgramId),
          BufferFrom(name), BufferFrom(symbol)>>,
        metadataProgramId)
      value == CreateMetadataArgs([name |-> name, symbol |-> symbol, uri |-> uri])
      data == serialize("CreateMetadataArgs", value)
      keys == <<AccountMeta(metadataAccount.address, FALSE, TRUE),
                AccountMeta(metadataOwnerAccount.address, FALSE, TRUE),
                AccountMeta(mintKey, FALSE, FALSE),
                AccountMeta(mintAuthorityKey, TRUE, FALSE),
                AccountMeta(payer, TRUE, FALSE),
                AccountMeta(updateAuthority, TRUE, FALSE),
                AccountMeta(SystemProgramId, FALSE, FALSE),
                AccountMeta(SYSVAR_RENT_PUBKEY, FALSE, FALSE)>>
  IN IF ~metadataAccount.ok \/ ~metadataOwnerAccount.ok \/ ~data.ok
     THEN [w |-> w, ok |-> FALSE, ret |-> NoKey]
     ELSE [w |-> [w EXCEPT !.instructions = Append(@, TransactionInstruction(
                      keys, metadataProgramId, data.bytes))],
           ok |-> TRUE, ret |-> NoKey]

createMetadata(w, symbol, name, uri, mintKey, mintAuthorityKey, payer, updateAuthority) ==
  LET metadataProgramId == programIds.metadata
      metadataAccount == findProgramAddress(
        <<BufferFrom(StrMetadata), toBuffer(metadataProgramId), toBuffer(mintKey)>>,
        metadataProgramId)
      metadataOwnerAccount == findProgramAddress(
        <<BufferFrom(StrMetadata), toBuffer(metadataProgramId),
          BufferFrom(name), BufferFrom(symbol)>>,
        metadataProgramId)
      value == CreateMetadataArgs([name |-> name, symbol |-> symbol, uri |-> uri])
      data == serialize("CreateMetadataArgs", value)
      keys == <<AccountMeta(metadataOwnerAccount.address, FALSE, TRUE),
                AccountMeta(metadataAccount.address, FALSE, TRUE),
                AccountMeta(mintKey, FALSE, FALSE),
                AccountMeta(mintAuthorityKey, TRUE, FALSE),
                AccountMeta(payer, TRUE, FALSE),
                AccountMeta(updateAuthority, TRUE, FALSE),
                AccountMeta(SystemProgramId, FALSE, FALSE),
                AccountMeta(SYSVAR_RENT_PUBKEY, FALSE, FALSE)>>
  IN IF ~metadataAccount.ok \/ ~metadataOwnerAccount.ok \/ ~data.ok
     THEN [w |-> w, ok |-> FALSE, ret |-> NoKey]
     ELSE [w |-> [w EXCEPT !.instructions = Append(@, TransactionInstruction(
                      keys, metadataProgramId, data.bytes))],
           ok |-> TRUE, ret |-> NoKey]

(***************************************************************************)
(* findOrCreateAccountByMint over the cache's token accounts.              *)
(***************************************************************************)
toBase58(pubkey) == <<"base58", pubkey>>

TokenAccount(pubkey, mint, owner, isNative) ==
  [defined |-> TRUE, pubkey |-> pubkey,
   info |-> [mint |-> mint, owner |-> owner, isNative |-> isNative]]

UndefinedAccount == [defined |-> FALSE]

NoExcluded == [defined |-> FALSE]
Excluded(set) == [defined |-> TRUE, set |-> set]

CacheFind_IgnoresExcluded(c, owner, accountToFind, excluded) ==
  LET matches(acc) ==
        /\ acc.defined
        /\ toBase58(acc.info.mint) = accountToFind
        /\ toBase58(acc.info.owner) = toBase58(owner)
      hits == {i \in 1..Len(c) : matches(c[i])}
  IN IF hits = {} THEN UndefinedAccount
     ELSE c[CHOOSE i \in hits : \A j \in hits : i <= j]

\* cache.byParser(TokenAccountParser).map(id => cache.get(id)).find(...)
CacheFind(c, owner, accountToFind, excluded) ==
  LET matches(acc) ==
        /\ acc.defined
        /\ toBase58(acc.info.mint) = accountToFind
        /\ toBase58(acc.info.owner) = toBase58(owner)
        /\ (~excluded.defined \/ toBase58(acc.pubkey) \notin excluded.set)
      hits == {i \in 1..Len(c) : matches(c[i])}
  IN IF hits = {} THEN UndefinedAccount
     ELSE c[CHOOSE i \in hits : \A j \in hits : i <= j]

findOrCreateAccountByMint_ReusesWrapped(w, c, payer, owner, accountRentExempt, mint, excluded) ==
  LET accountToFind == toBase58(mint)
      account == CacheFind(c, owner, accountToFind, excluded)
      isWrappedSol == accountToFind = toBase58(WRAPPED_SOL_MINT)
  IN IF account.defined
     THEN [w |-> w, ret |-> account.pubkey]
     ELSE LET r == createTokenAccount(w, payer, accountRentExempt, mint, owner)
              toAccount == r.ret
          IN IF isWrappedSol
             THEN [w |-> [r.w EXCEPT !.cleanupInstructions = Append(@,
                            createCloseAccountInstruction(
                              TOKEN_PROGRAM_ID, toAccount, payer, payer, <<>>))],
                   ret |-> toAccount]
             ELSE [w |-> r.w, ret |-> toAccount]

findOrCreateAccountByMint_ClosesToOwner(w, c, payer, owner, accountRentExempt, mint, excluded) ==
  LET accountToFind == toBase58(mint)
      account == CacheFind(c, owner, accountToFind, excluded)
      isWrappedSol == accountToFind = toBase58(WRAPPED_SOL_MINT)
  IN IF account.defined /\ ~isWrappedSol
     THEN [w |-> w, ret |-> account.pubkey]
     ELSE LET r == createTokenAccount(w, payer, accountRentExempt, mint, owner)
              toAccount == r.ret
          IN IF isWrappedSol
             THEN [w |-> [r.w EXCEPT !.cleanupInstructions = Append(@,
                            createCloseAccountInstruction(
                              TOKEN_PROGRAM_ID, toAccount, owner, owner, <<>>))],
                   ret |-> toAccount]
             ELSE [w |-> r.w, ret |-> toAccount]

findOrCreateAccountByMint(w, c, payer, owner, accountRentExempt, mint, excluded) ==
  LET accountToFind == toBase58(mint)
      account == CacheFind(c, owner, accountToFind, excluded)
      isWrappedSol == accountToFind = toBase58(WRAPPED_SOL_MINT)
  IN IF account.defined /\ ~isWrappedSol
     THEN [w |-> w, ret |-> account.pubkey]
     ELSE LET r == createTokenAccount(w, payer, accountRentExempt, mint, owner)
              toAccount == r.ret
          IN IF isWrappedSol
             THEN [w |-> [r.w EXCEPT !.cleanupInstructions = Append(@,
                            createCloseAccountInstruction(
                              TOKEN_PROGRAM_ID, toAccount, payer, payer, <<>>))],
                   ret |-> toAccount]
             ELSE [w |-> r.w, ret |-> toAccount]

(***************************************************************************)
(* Inputs of the calls.                                                    *)
(***************************************************************************)
Payers == {Wallet(1)}
Owners == {Wallet(1), Wallet(2)}
Mints == {WRAPPED_SOL_MINT, Mint(1)}
Amounts == {2039280}

Str33 == Repeat(97, 33)     \* 33 bytes: longer than a seed may be
Str300 == Repeat(97, 300)   \* 300 bytes: its length needs two bytes of the prefix

\* <<name, symbol, uri, mint>> of a createMetadata or updateMetadata call
MetadataInputs ==
  {<<StrFoo, StrFOO, StrHttpX, Mint(1)>>,
   <<StrFoo, StrFOO, StrHttpX, Mint(2)>>,
   <<StrFOO, StrFoo, StrHttpX, Mint(1)>>,
   <<StrFoo, StrEuro, <<>>, Mint(1)>>,
   <<StrEAcute, StrFOO, Str300, Mint(1)>>,
   <<<<>>, <<>>, <<>>, Mint(2)>>,
   <<Str33, StrFOO, StrHttpX, Mint(1)>>,
   <<StrFoo, Str33, StrHttpX, Mint(1)>>}

SmallMetadataInputs == {<<StrFoo, StrFOO, StrHttpX, Mint(1)>>}

AccountsToCheck ==
  {TokenAccount(Cached(1), WRAPPED_SOL_MINT, Wallet(1), TRUE),
   TokenAccount(Cached(2), Mint(1), Wallet(1), FALSE)}

\* what the cache may hold at position i
CacheEntries(i) ==
  {UndefinedAccount,
   TokenAccount(Cached(i), Mint(1), Wallet(1), FALSE),
   TokenAccount(Cached(i), Mint(1), Wallet(2), FALSE),
   TokenAccount(Cached(i), WRAPPED_SOL_MINT, Wallet(1), TRUE)}

CachesOfLen(n) ==
  {c \in [1..n -> UNION {CacheEntries(i) : i \in 1..n}] : \A i \in 1..n : c[i] \in CacheEntries(i)}

CacheContents == UNION {CachesOfLen(n) : n \in 0..MaxCache}

SmallCaches == {<<>>, <<TokenAccount(Cached(1), Mint(1), Wallet(1), FALSE)>>}

ExcludedSets == {NoExcluded, Excluded({}), Excluded({toBase58(Cached(1))})}

(***************************************************************************)
(* The record of the last call.                                            *)
(***************************************************************************)
NoCall ==
  [n |-> 0, op |-> "none", ok |-> TRUE, ret |-> NoKey,
   payer |-> NoKey, owner |-> NoKey, mint |-> NoKey, native |-> FALSE,
   excluded |-> NoExcluded, mintAuthority |-> NoKey, updateAuthority |-> NoKey,
   name |-> <<>>, symbol |-> <<>>, uri |-> <<>>,
   pre |-> [instructions |-> <<>>, cleanupInstructions |-> <<>>, signers |-> <<>>,
            nAccounts |-> 0]]

CallRecord(op, ok, ret, args) ==
  [f \in DOMAIN NoCall |->
     CASE f = "n" -> last.n + 1
       [] f = "op" -> op
       [] f = "ok" -> ok
       [] f = "ret" -> ret
       [] f = "pre" -> World
       [] f \in DOMAIN args -> args[f]
       [] OTHER -> NoCall[f]]

\* the caller's lists after a call that ended in world w
Commit(op, w, ok, ret, args) ==
  /\ instructions' = w.instructions
  /\ cleanupInstructions' = w.cleanupInstructions
  /\ signers' = w.signers
  /\ nAccounts' = w.nAccounts
  /\ last' = CallRecord(op, ok, ret, args)
  /\ UNCHANGED <<cache, codec>>

CodecIdle == [pc |-> "idle", record |-> Undefined, buffer |-> <<>>, out |-> Undefined]

(***************************************************************************)
(* One action per exported function.                                       *)
(***************************************************************************)
EnsureSplAccount ==
  \E toCheck \in AccountsToCheck, payer \in Payers, amount \in Amounts :
    LET r == ensureSplAccount(World, toCheck, payer, amount)
    IN Commit("ensureSplAccount", r.w, TRUE, r.ret,
              [payer |-> payer, native |-> toCheck.info.isNative,
               mint |-> toCheck.info.mint])

CreateTempMemoryAccount ==
  \E payer \in Payers, owner \in {MetadataProgramId} :
    LET r == createTempMemoryAccount(World, payer, owner, DEFAULT_TEMP_MEM_SPACE)
    IN Commit("createTempMemoryAccount", r.w, TRUE, r.ret, [payer |-> payer, owner |-> owner])

CreateUninitializedMint ==
  \E payer \in Payers, amount \in Amounts :
    LET r == createUninitializedMint(World, payer, amount)
    IN Commit("createUninitializedMint", r.w, TRUE, r.ret, [payer |-> payer])

CreateUninitializedAccount ==
  \E payer \in Payers, amount \in Amounts :
    LET r == createUninitializedAccount(World, payer, amount)
    IN Commit("createUninitializedAccount", r.w, TRUE, r.ret, [payer |-> payer])

CreateAssociatedTokenAccountInstruction ==
  \E payer \in Payers, walletAddress \in {Wallet(2)}, mint \in {Mint(1)} :
    LET r == createAssociatedTokenAccountInstruction(
               World, <<"Associated", 1>>, payer, walletAddress, mint)
    IN Commit("createAssociatedTokenAccountInstruction", r.w, TRUE, r.ret,
              [payer |-> payer, owner |-> walletAddress, mint |-> mint])

CreateMint ==
  \E payer \in Payers, amount \in Amounts, owner \in Owners :
    LET r == createMint(World, payer, amount, 0, owner, owner)
    IN Commit("createMint", r.w, TRUE, r.ret, [payer |-> payer, owner |-> owner])

CreateTokenAccount ==
  \E payer \in Payers, amount \in Amounts, mint \in Mints, owner \in Owners :
    LET r == createTokenAccount(World, payer, amount, mint, owner)
    IN Commit("createTokenAccount", r.w, TRUE, r.ret,
              [payer |-> payer, owner |-> owner, mint |-> mint])

CreateMetadata(inputs) ==
  \E in \in inputs :
    LET name == in[1]
        symbol == in[2]
        uri == in[3]
        mintKey == in[4]
        r == createMetadata(World, symbol, name, uri, mintKey, Wallet(2), Wallet(1), Wallet(3))
    IN Commit("createMetadata", r.w, r.ok, r.ret,
              [name |-> name, symbol |-> symbol, uri |-> uri, mint |-> mintKey,
               mintAuthority |-> Wallet(2), payer |-> Wallet(1),
               updateAuthority |-> Wallet(3)])

UpdateMetadata(inputs) ==
  \E in \in inputs :
    LET name == in[1]
        symbol == in[2]
        uri == in[3]
        mintKey == in[4]
        r == updateMetadata(World, symbol, name, uri, mintKey, Wallet(3))
    IN Commit("updateMetadata", r.w, r.ok, r.ret,
              [name |-> name, symbol |-> symbol, uri |-> uri, mint |-> mintKey,
               updateAuthority |-> Wallet(3)])

FindOrCreateAccountByMint(excludedSets) ==
  \E payer \in Payers, owner \in Owners, amount \in Amounts, mint \in Mints,
     excluded \in excludedSets :
    LET r == findOrCreateAccountByMint(World, cache, payer, owner, amount, mint, excluded)
    IN Commit("findOrCreateAccountByMint", r.w, TRUE, r.ret,
              [payer |-> payer, owner |-> owner, mint |-> mint, excluded |-> excluded])

(***************************************************************************)
(* Spec: any sequence of at most MaxCalls calls of the module's functions. *)
(***************************************************************************)
InitWith(caches) ==
  /\ instructions = <<>>
  /\ cleanupInstructions = <<>>
  /\ signers = <<>>
  /\ nAccounts = 0
  /\ cache \in caches
  /\ last = NoCall
  /\ codec = CodecIdle

Init == InitWith(SmallCaches)

Next ==
  \/ last.n < MaxCalls /\ EnsureSplAccount
  \/ last.n < MaxCalls /\ CreateTempMemoryAccount
  \/ last.n < MaxCalls /\ CreateUninitializedMint
  \/ last.n < MaxCalls /\ CreateUninitializedAccount
  \/ last.n < MaxCalls /\ CreateAssociatedTokenAccountInstruction
  \/ last.n < MaxCalls /\ CreateMint
  \/ last.n < MaxCalls /\ CreateTokenAccount
  \/ last.n < MaxCalls /\ CreateMetadata(SmallMetadataInputs)
  \/ last.n < MaxCalls /\ UpdateMetadata(SmallMetadataInputs)
  \/ last.n < MaxCalls /\ FindOrCreateAccountByMint({NoExcluded})

Spec == Init /\ [][Next]_vars

(***************************************************************************)
(* MetaSpec: createMetadata and updateMetadata over the string inputs.     *)
(***************************************************************************)
MetaNext ==
  \/ last.n < MaxMetaCalls /\ CreateMetadata(MetadataInputs)
  \/ last.n < MaxMetaCalls /\ UpdateMetadata(MetadataInputs)

MetaSpec == InitWith({<<>>}) /\ [][MetaNext]_vars

(***************************************************************************)
(* ResolveSpec: ensureSplAccount and findOrCreateAccountByMint over every  *)
(* cache content.                                                          *)
(***************************************************************************)
ResolveNext ==
  \/ last.n < MaxResolveCalls /\ EnsureSplAccount
  \/ last.n < MaxResolveCalls /\ FindOrCreateAccountByMint(ExcludedSets)

ResolveSpec == InitWith(CacheContents) /\ [][ResolveNext]_vars

(***************************************************************************)
(* CodecSpec: a Metadata record is encoded under its schema entry, the     *)
(* buffer is possibly cut to a strict prefix, and decodeMetadata reads it. *)
(***************************************************************************)
ZeroKey == Repeat(0, 32)
RampKey == [i \in 1..32 |-> i]

MetadataRecords ==
  [allow_duplicates : {Undefined, JSNum(0), JSNum(1)},
   mint : {ZeroKey, RampKey},
   name : {<<>>, StrFoo, StrEAcute},
   symbol : {<<>>, StrFOO},
   uri : {<<>>, StrHttpX}]

CodecInit ==
  /\ instructions = <<>>
  /\ cleanupInstructions = <<>>
  /\ signers = <<>>
  /\ nAccounts = 0
  /\ cache = <<>>
  /\ last = NoCall
  /\ codec \in {[pc |-> "start", record |-> R, buffer |-> <<>>, out |-> Undefined] :
                  R \in MetadataRecords}

EncodeMetadata ==
  /\ codec.pc = "start"
  /\ LET enc == serialize("Metadata", codec.record)
     IN /\ enc.ok
        /\ codec' = [codec EXCEPT !.pc = "encoded", !.buffer = enc.bytes]
  /\ UNCHANGED <<instructions, cleanupInstructions, signers, nAccounts, cache, last>>

TruncateBuffer ==
  /\ codec.pc = "encoded"
  /\ \E n \in 0..(Len(codec.buffer) - 1) :
       codec' = [codec EXCEPT !.pc = "truncated", !.buffer = SubSeq(codec.buffer, 1, n)]
  /\ UNCHANGED <<instructions, cleanupInstructions, signers, nAccounts, cache, last>>

DecodeMetadata ==
  /\ codec.pc \in {"encoded", "truncated"}
  /\ codec' = [codec EXCEPT
                 !.pc = IF codec.pc = "encoded" THEN "decoded" ELSE "decodedTruncated",
                 !.out = decodeMetadata(codec.buffer)]
  /\ UNCHANGED <<instructions, cleanupInstructions, signers, nAccounts, cache, last>>

CodecNext == EncodeMetadata \/ TruncateBuffer \/ DecodeMetadata

CodecSpec == CodecInit /\ [][CodecNext]_vars

(***************************************************************************)
(* What the last call appended, and the kinds of instruction.              *)
(***************************************************************************)
AddedInstructions == Suffix(instructions, Len(last.pre.instructions))
AddedCleanup == Suffix(cleanupInstructions, Len(last.pre.cleanupInstructions))
AddedSigners == Suffix(signers, Len(last.pre.signers))

ListsUnchanged ==
  /\ instructions = last.pre.instructions
  /\ cleanupInstructions = last.pre.cleanupInstructions
  /\ signers = last.pre.signers

IsCreateAccountIx(ix) == ix.programId = SystemProgramId /\ ix.data.instruction = "Create"
IsInitAccountIx(ix) ==
  ix.programId = TOKEN_PROGRAM_ID /\ ix.data.instruction = "InitializeAccount"
IsInitMintIx(ix) == ix.programId = TOKEN_PROGRAM_ID /\ ix.data.instruction = "InitializeMint"
IsCloseAccountIx(ix) == ix.programId = TOKEN_PROGRAM_ID /\ ix.data.instruction = "CloseAccount"

\* the account of the cache matches the target mint and owner and is not excluded
Matches(acc, mint, owner, excluded) ==
  /\ acc.defined
  /\ acc.info.mint = mint
  /\ acc.info.owner = owner
  /\ (~excluded.defined \/ toBase58(acc.pubkey) \notin excluded.set)

MatchingSlots == {i \in 1..Len(cache) : Matches(cache[i], last.mint, last.owner, last.excluded)}

(***************************************************************************)
(* C1: findOrCreateAccountByMint with the wrapped-native mint appends      *)
(* exactly one creation (allocation) instruction to the instructions list, *)
(* and exactly one instruction, a close, to the cleanup list, whatever the *)
(* cache holds.                                                            *)
(***************************************************************************)
C1_WrappedSolAlwaysCreates ==
  (last.op = "findOrCreateAccountByMint" /\ last.mint = WRAPPED_SOL_MINT) =>
    /\ IsPrefix(last.pre.instructions, instructions)
    /\ IsPrefix(last.pre.cleanupInstructions, cleanupInstructions)
    /\ Cardinality({i \in 1..Len(AddedInstructions) :
                      IsCreateAccountIx(AddedInstructions[i])}) = 1
    /\ Len(AddedCleanup) = 1
    /\ IsCloseAccountIx(AddedCleanup[1])

C1_Witness ==
  /\ last.op = "findOrCreateAccountByMint"
  /\ last.mint = WRAPPED_SOL_MINT
  /\ MatchingSlots # {}
  /\ Len(AddedCleanup) = 1

(***************************************************************************)
(* C2: findOrCreateAccountByMint with a mint other than the wrapped-native *)
(* mint and a cache holding exactly one matching, non-excluded account     *)
(* returns that account's identifier and leaves the three lists unchanged. *)
(***************************************************************************)
C2_ReusesTheOneMatch ==
  (/\ last.op = "findOrCreateAccountByMint"
   /\ last.mint # WRAPPED_SOL_MINT
   /\ Cardinality(MatchingSlots) = 1) =>
    /\ \A i \in MatchingSlots : last.ret = cache[i].pubkey
    /\ ListsUnchanged

C2_Witness ==
  /\ last.op = "findOrCreateAccountByMint"
  /\ last.mint # WRAPPED_SOL_MINT
  /\ Cardinality(MatchingSlots) = 1
  /\ last.n = 2
  /\ instructions # <<>>
  /\ last.ret = Cached(2)
  /\ ListsUnchanged

ExpectedMetadataAccount(mint) ==
  findProgramAddress(
    <<BufferFrom(StrMetadata), toBuffer(MetadataProgramId), toBuffer(mint)>>,
    MetadataProgramId).address

ExpectedMetadataOwnerAccount(name, symbol) ==
  findProgramAddress(
    <<BufferFrom(StrMetadata), toBuffer(MetadataProgramId), BufferFrom(name),
      BufferFrom(symbol)>>,
    MetadataProgramId).address

ValidMetadata(R) ==
  /\ Len(R.mint) = 32
  /\ Len(Utf8(R.name)) <= MAX_NAME_LENGTH
  /\ Len(Utf8(R.symbol)) <= MAX_SYMBOL_LENGTH
  /\ Len(Utf8(R.uri)) <= MAX_URI_LENGTH

\* the decoded object's field equals the record's, for the field's wire type
SameField(decoded, R, name, fieldType) ==
  LET d == Get(decoded, name)
      r == Get(R, name)
  IN CASE fieldType.kind = "option" -> d.t = r.t /\ (d.t = "number" => d.v = r.v)
       [] fieldType.kind = "u8" -> d.t = "number" /\ d.v = r.v
       [] fieldType.kind = "array" -> d.bytes = r
       [] fieldType.kind = "string" -> d = r

(***************************************************************************)
(* C4: round trip on Metadata: decoding the encoding of a valid record R   *)
(* (name, symbol and uri within their length bounds) yields a record equal *)
(* to R in every field of the Metadata schema entry.                       *)
(***************************************************************************)
C4_MetadataRoundTrip ==
  (codec.pc = "decoded" /\ ValidMetadata(codec.record)) =>
    /\ codec.out.error = "none"
    /\ \A i \in 1..Len(SCHEMA("Metadata")) :
         SameField(codec.out.value, codec.record,
                   SCHEMA("Metadata")[i][1], SCHEMA("Metadata")[i][2])

(***************************************************************************)
(* C5: decoding, under the Metadata schema entry, a strict prefix of a     *)
(* valid encoding raises MalformedInput and returns no record.             *)
(***************************************************************************)
C5_TruncatedIsMalformed ==
  (codec.pc = "decodedTruncated") =>
    /\ Len(codec.buffer) < Len(serialize("Metadata", codec.record).bytes)
    /\ codec.out.error = "MalformedInput"
    /\ codec.out.value.t = "undefined"

C5_Witness ==
  /\ codec.pc = "decodedTruncated"
  /\ codec.record.allow_duplicates.t = "undefined"
  /\ codec.record.mint = ZeroKey
  /\ Len(codec.buffer) = 40
  /\ codec.out.error = "MalformedInput"

\* the four base-256 digits of n, least significant first
LittleEndian4(n) ==
  LET weight == <<1, 256, 65536, 16777216>>
  IN [i \in 1..4 |-> (n \div weight[i]) % 256]

LengthPrefixed(str) == LittleEndian4(Len(Utf8(str))) \o Utf8(str)

ExamplePayload ==
  <<0, 0, 3, 0, 0, 0, 70, 111, 111, 3, 0, 0, 0, 70, 79, 79,
    8, 0, 0, 0, 104, 116, 116, 112, 58, 47, 47, 120>>

(***************************************************************************)
(* C6: the payload of the instruction createMetadata builds is the byte 0  *)
(* (opcode), the byte 0 (allow_duplicates), then name, symbol and uri,     *)
(* each as its UTF-8 byte count in 4 little-endian bytes followed by the   *)
(* UTF-8 bytes themselves.                                                 *)
(***************************************************************************)
C6_CreateMetadataPayload ==
  (last.op = "createMetadata" /\ last.ok) =>
    /\ Len(AddedInstructions) = 1
    /\ AddedInstructions[1].data =
         <<0, 0>> \o LengthPrefixed(last.name) \o LengthPrefixed(last.symbol)
                  \o LengthPrefixed(last.uri)
    /\ (last.name = StrFoo /\ last.symbol = StrFOO /\ last.uri = StrHttpX) =>
         AddedInstructions[1].data = ExamplePayload
    /\ (last.name = StrEAcute /\ last.uri = Str300) =>
         SubSeq(AddedInstructions[1].data, 1, 20) =
           <<0, 0, 2, 0, 0, 0, 195, 169, 3, 0, 0, 0, 70, 79, 79, 44, 1, 0, 0, 97>>

C6_Witness ==
  /\ last.op = "createMetadata"
  /\ last.ok
  /\ last.name = StrEAcute
  /\ last.uri = Str300
  /\ Len(AddedInstructions) = 1

EmptyWorld ==
  [instructions |-> <<>>, cleanupInstructions |-> <<>>, signers |-> <<>>, nAccounts |-> 0]

\* the keys of the instruction createMetadata builds for the arguments of the last call
CreateMetadataKeysFor(c) ==
  createMetadata(EmptyWorld, c.symbol, c.name, c.uri, c.mint, Wallet(2), Wallet(1),
                 c.updateAuthority).w.instructions[1].keys

(***************************************************************************)
(* C7: an updateMetadata call that returns has appended exactly one        *)
(* instruction with 3 keys, in this order: metadata (writable),            *)
(* update-authority (signer), metadata-owner; the two addresses are those  *)
(* createMetadata derives for the same mint, name and symbol, from the     *)
(* seeds "metadata"+programId+mint and "metadata"+programId+name+symbol.   *)
(***************************************************************************)
C7_UpdateMetadataKeys ==
  (last.op = "updateMetadata") =>
    IF ~last.ok THEN ListsUnchanged
    ELSE /\ IsPrefix(last.pre.instructions, instructions)
         /\ Len(AddedInstructions) = 1
         /\ LET ix == AddedInstructions[1]
                created == CreateMetadataKeysFor(last)
            IN /\ Len(ix.keys) = 3
               /\ ix.keys[1] = AccountMeta(created[2].pubkey, FALSE, TRUE)
               /\ ix.keys[2] = AccountMeta(last.updateAuthority, TRUE, FALSE)
               /\ ix.keys[3] = AccountMeta(created[1].pubkey, FALSE, FALSE)
               /\ ix.keys[1].pubkey = ExpectedMetadataAccount(last.mint)
               /\ ix.keys[3].pubkey = ExpectedMetadataOwnerAccount(last.name, last.symbol)

C7_Witness ==
  /\ last.op = "updateMetadata"
  /\ last.ok
  /\ last.n = 2
  /\ last.name = StrFoo
  /\ last.symbol = StrFOO
  /\ \E i \in 1..Len(last.pre.instructions) :
       /\ Len(last.pre.instructions[i].keys) = 8
       /\ last.pre.instructions[i].keys[2].pubkey = AddedInstructions[1].keys[1].pubkey
       /\ last.pre.instructions[i].keys[1].pubkey = AddedInstructions[1].keys[3].pubkey

(***************************************************************************)
(* C8: each createMint or createTokenAccount call appends exactly two      *)
(* instructions, an account allocation followed by an init, and exactly    *)
(* one signer; the identifier it returns is the allocation's new account,  *)
(* the account the init initialises, and the signer's public identifier.   *)
(***************************************************************************)
C8_CreateReturnsNewAccount ==
  (last.op \in {"createMint", "createTokenAccount"}) =>
    /\ IsPrefix(last.pre.instructions, instructions)
    /\ IsPrefix(last.pre.signers, signers)
    /\ Len(AddedInstructions) = 2
    /\ Len(AddedSigners) = 1
    /\ IsCreateAccountIx(AddedInstructions[1])
    /\ AddedInstructions[1].keys[2].pubkey = last.ret
    /\ IF last.op = "createMint"
       THEN IsInitMintIx(AddedInstructions[2])
       ELSE IsInitAccountIx(AddedInstructions[2])
    /\ AddedInstructions[2].keys[1].pubkey = last.ret
    /\ AddedSigners[1].publicKey = last.ret

C8_Witness ==
  /\ last.op = "createMint"
  /\ last.n = 3
  /\ Len(last.pre.signers) = 2
  /\ Len(AddedInstructions) = 2
  /\ AddedSigners[1].publicKey = last.ret

(***************************************************************************)
(* C9: the instructions, cleanup and signers lists are append-only under   *)
(* every operation: the contents of each list before a step are a prefix   *)
(* of its contents after the step.                                         *)
(***************************************************************************)
C9_AppendOnly ==
  [][/\ IsPrefix(instructions, instructions')
     /\ IsPrefix(cleanupInstructions, cleanupInstructions')
     /\ IsPrefix(signers, signers')]_vars

C9_Witness ==
  /\ last.n = 3
  /\ last.pre.instructions # <<>>
  /\ last.pre.cleanupInstructions # <<>>
  /\ last.pre.signers # <<>>
  /\ Len(instructions) > Len(last.pre.instructions)
  /\ Len(cleanupInstructions) > Len(last.pre.cleanupInstructions)
  /\ Len(signers) > Len(last.pre.signers)

\* instructions[j], instructions[j + 1] allocate `account` and initialise it as wrapped-native
CreatesWrappedNative(j, account) ==
  /\ IsCreateAccountIx(instructions[j])
  /\ instructions[j].keys[2].pubkey = account
  /\ IsInitAccountIx(instructions[j + 1])
  /\ instructions[j + 1].keys[1].pubkey = account
  /\ instructions[j + 1].keys[2].pubkey = WRAPPED_SOL_MINT

CreatesNoWrappedNative ==
  \/ last.op = "ensureSplAccount" /\ ~last.native
  \/ last.op = "findOrCreateAccountByMint" /\ last.mint # WRAPPED_SOL_MINT

(***************************************************************************)
(* C10: over any sequence of ensureSplAccount and                          *)
(* findOrCreateAccountByMint calls from empty lists, every entry of the    *)
(* cleanup list closes an account that the instructions list allocates and *)
(* then initialises with the wrapped-native mint, with the payer of the    *)
(* allocation as destination and close authority; a call that creates no   *)
(* wrapped-native account leaves the cleanup list unchanged; the cleanup   *)
(* list has as many entries as wrapped-native accounts were created.       *)
(***************************************************************************)
C10_CleanupClosesWrappedNative ==
  /\ \A i \in 1..Len(cleanupInstructions) :
       LET close == cleanupInstructions[i]
       IN /\ IsCloseAccountIx(close)
          /\ Len(close.keys) = 3
          /\ \E j \in 1..(Len(instructions) - 1) :
               /\ CreatesWrappedNative(j, close.keys[1].pubkey)
               /\ close.keys[2].pubkey = instructions[j].keys[1].pubkey
               /\ close.keys[3].pubkey = instructions[j].keys[1].pubkey
  /\ AddedCleanup # <<>> =>
       /\ Len(AddedCleanup) = 1
       /\ AddedCleanup[1].keys[1].pubkey = last.ret
       /\ AddedCleanup[1].keys[2].pubkey = last.payer
       /\ AddedCleanup[1].keys[3].pubkey = last.payer
       /\ Len(AddedInstructions) = 2
       /\ CreatesWrappedNative(Len(last.pre.instructions) + 1, last.ret)
  /\ CreatesNoWrappedNative => cleanupInstructions = last.pre.cleanupInstructions
  /\ Len(cleanupInstructions) =
       Cardinality({j \in 1..Len(instructions) :
                      /\ IsInitAccountIx(instructions[j])
                      /\ instructions[j].keys[2].pubkey = WRAPPED_SOL_MINT})

C10_Witness ==
  /\ last.n = 2
  /\ Len(cleanupInstructions) = 2
  /\ last.op = "findOrCreateAccountByMint"
  /\ last.owner # last.payer
  /\ cleanupInstructions[1].keys[1].pubkey # cleanupInstructions[2].keys[1].pubkey

====
